---------------------------- MODULE Spec2Model ----------------------------
(***************************************************************************)
(* Model of github.com/achu-1612/diff: the generic binary handler          *)
(* (Compare / findMatches / mergeAdjacentMatches / Patch / stats), the     *)
(* text handler, the handler registry of DiffEngine and the concurrent     *)
(* directory comparison DiffEngine.CompareDirs.                            *)
(*                                                                         *)
(* Byte buffers are sequences of naturals; Go offsets are 0-based, so the  *)
(* Go slice s[lo:hi] is SubSeq(s, lo+1, hi).                               *)
(***************************************************************************)
EXTENDS Integers, Sequences, FiniteSets, TLC

(***************************************************************************)
(* Bounds of the model.                                                    *)
(***************************************************************************)
MaxOldLen == 5
MaxNewLen == 4
GapLen == 3
MaxTail == 1
MaxCalls == 2

(***************************************************************************)
(* Byte values used in buffers: one ordinary byte and the line feed.       *)
(***************************************************************************)
NL == 10
Bytes == {1, NL}

(***************************************************************************)
(* Generic helpers.                                                        *)
(***************************************************************************)
Min(a, b) == IF a < b THEN a ELSE b

Slice(s, lo, hi) == SubSeq(s, lo + 1, hi)

SliceOk(s, lo, hi) == 0 <= lo /\ lo <= hi /\ hi <= Len(s)

SeqsUpTo(S, n) == UNION {[1..k -> S] : k \in 0..n}

SeqsOfLen(S, n) == [1..n -> S]

RECURSIVE Pow(_, _)
Pow(b, e) == IF e = 0 THEN 1 ELSE b * Pow(b, e - 1)

MapAppend(t, k, v) ==
    IF k \in DOMAIN t
    THEN [t EXCEPT ![k] = Append(@, v)]
    ELSE [x \in (DOMAIN t) \cup {k} |-> IF x = k THEN <<v>> ELSE t[x]]

EmptyMap == [x \in {} |-> <<>>]

(***************************************************************************)
(* GenericBinaryHandler: constants of NewGenericBinaryHandler and          *)
(* OptimizeBinaryDiff.                                                     *)
(***************************************************************************)
DefaultMinMatchLength == 8
DefaultMaxGapSize == 1024
DefaultChunkSize == 4096
HighMinMatchLength == 16
HighMaxGapSize == 256
HighChunkSize == 8192
LowMinMatchLength == 4
LowMaxGapSize == 2048
LowChunkSize == 2048
OneMB == 1048576
TenMB == 10485760

EmptyStats ==
    [MatchCount |-> 0, TotalMatchedBytes |-> 0, LargestMatch |-> 0,
     SmallestMatch |-> 0, AverageMatchSize |-> <<0, 1>>, ChunkCount |-> 0,
     CompressionRatio |-> <<0, 1>>, Entropy |-> "zero"]

NewGenericBinaryHandler ==
    [MinMatchLength |-> DefaultMinMatchLength,
     MaxGapSize |-> DefaultMaxGapSize,
     ChunkSize |-> DefaultChunkSize,
     Stats |-> EmptyStats]

(***************************************************************************)
(* calculateEntropy returns H/8 where H = -SUM p*log2(p) over the byte     *)
(* frequencies.  The code only compares the result with thresholds, and    *)
(* H > p/q bits  <=>  n^(q*n) > 2^(p*n) * PROD c^(q*c)  (n the length, c   *)
(* the count of each distinct byte).  Because H <= log2(k) for k distinct  *)
(* byte values, the comparison is FALSE whenever k <= kmax with            *)
(* log2(kmax) <= p/q; that test comes first to keep the numbers small.     *)
(***************************************************************************)
Distinct(data) == {data[i] : i \in DOMAIN data}

Count(data, b) == Cardinality({i \in DOMAIN data : data[i] = b})

RECURSIVE PowProd(_, _, _)
PowProd(data, S, q) ==
    IF S = {} THEN 1
    ELSE LET b == CHOOSE x \in S : TRUE
         IN Pow(Count(data, b), q * Count(data, b)) * PowProd(data, S \ {b}, q)

EntropyBitsAbove(data, p, q, kmax) ==
    IF Len(data) = 0 \/ Cardinality(Distinct(data)) <= kmax THEN FALSE
    ELSE Pow(Len(data), q * Len(data))
            > Pow(2, p * Len(data)) * PowProd(data, Distinct(data), q)

\* entropy > 0.8  <=>  H > 32/5 bits (2^6.4 = 84.4...)
EntropyAbove08(data) == EntropyBitsAbove(data, 32, 5, 84)

\* entropy > 0.5  <=>  H > 4 bits (2^4 = 16)
EntropyAbove05(data) == EntropyBitsAbove(data, 4, 1, 16)

calculateEntropy(data) ==
    IF Len(data) = 0 \/ Cardinality(Distinct(data)) = 1 THEN "zero"
    ELSE IF EntropyAbove08(data) THEN "high"
    ELSE IF EntropyAbove05(data) THEN "mid"
    ELSE "low"

OptimizeBinaryDiff(hd, sampleData) ==
    LET base ==
            IF EntropyAbove08(sampleData)
            THEN [hd EXCEPT !.MinMatchLength = HighMinMatchLength,
                            !.MaxGapSize = HighMaxGapSize,
                            !.ChunkSize = HighChunkSize]
            ELSE IF EntropyAbove05(sampleData)
            THEN [hd EXCEPT !.MinMatchLength = DefaultMinMatchLength,
                            !.MaxGapSize = DefaultMaxGapSize,
                            !.ChunkSize = DefaultChunkSize]
            ELSE [hd EXCEPT !.MinMatchLength = LowMinMatchLength,
                            !.MaxGapSize = LowMaxGapSize,
                            !.ChunkSize = LowChunkSize]
        dataSize == Len(sampleData)
    IN  IF dataSize > TenMB
        THEN [base EXCEPT !.ChunkSize = @ * 4, !.MinMatchLength = @ + 8]
        ELSE IF dataSize > OneMB
        THEN [base EXCEPT !.ChunkSize = @ * 2, !.MinMatchLength = @ + 4]
        ELSE base

(***************************************************************************)
(* rollingHash: hash = (hash << 1) + data[i] in a uint32.  The 32-bit      *)
(* accumulator is kept as two 16-bit halves <<hi, lo>> so that it wraps    *)
(* exactly as uint32 does.                                                 *)
(***************************************************************************)
Half == 65536

HashStep(hash, b) ==
    LET lo2 == hash[2] * 2 + b
    IN  <<(hash[1] * 2 + (lo2 \div Half)) % Half, lo2 % Half>>

RECURSIVE HashFold(_, _, _, _)
HashFold(data, window, i, hash) ==
    IF i >= window THEN hash
    ELSE HashFold(data, window, i + 1, HashStep(hash, data[i + 1]))

rollingHash(data, window) ==
    IF Len(data) < window THEN <<0, 0>>
    ELSE HashFold(data, window, 0, <<0, 0>>)

(***************************************************************************)
(* extendMatch: length of the common prefix of the two slices.             *)
(***************************************************************************)
RECURSIVE ExtendFrom(_, _, _, _)
ExtendFrom(o, n, length, maxLen) ==
    IF length < maxLen /\ o[length + 1] = n[length + 1]
    THEN ExtendFrom(o, n, length + 1, maxLen)
    ELSE length

extendMatch(o, n) == ExtendFrom(o, n, 0, Min(Len(o), Len(n)))

(***************************************************************************)
(* mergeAdjacentMatches.                                                   *)
(***************************************************************************)
RECURSIVE MergeLoop(_, _, _, _, _)
MergeLoop(matches, maxGap, i, current, merged) ==
    IF i > Len(matches) THEN Append(merged, current)
    ELSE LET next == matches[i]
             gapOld == next.OldOffset - (current.OldOffset + current.Length)
             gapNew == next.NewOffset - (current.NewOffset + current.Length)
         IN  IF gapOld <= maxGap /\ gapNew <= maxGap
             THEN MergeLoop(matches, maxGap, i + 1,
                     [current EXCEPT !.Length =
                         next.NewOffset + next.Length - current.NewOffset],
                     merged)
             ELSE MergeLoop(matches, maxGap, i + 1, next, Append(merged, current))

mergeAdjacentMatches(hd, matches) ==
    IF Len(matches) < 2 THEN matches
    ELSE MergeLoop(matches, hd.MaxGapSize, 2, matches[1], <<>>)

(***************************************************************************)
(* findMatches: index old at stride MinMatchLength, scan new at the same   *)
(* stride, take the first indexed position whose verified length reaches   *)
(* MinMatchLength, skip the matched region, then merge.                    *)
(***************************************************************************)
RECURSIVE BuildHashTable(_, _, _, _)
BuildHashTable(old, mml, i, table) ==
    IF i > Len(old) - mml THEN table
    ELSE BuildHashTable(old, mml, i + mml,
            MapAppend(table, rollingHash(Slice(old, i, Len(old)), mml), i))

RECURSIVE FirstLongEnough(_, _, _, _, _, _)
FirstLongEnough(old, new, mml, positions, i, k) ==
    IF k > Len(positions) THEN [found |-> FALSE, pos |-> 0, matchLen |-> 0]
    ELSE LET pos == positions[k]
             matchLen == extendMatch(Slice(old, pos, Len(old)),
                                     Slice(new, i, Len(new)))
         IN  IF matchLen >= mml
             THEN [found |-> TRUE, pos |-> pos, matchLen |-> matchLen]
             ELSE FirstLongEnough(old, new, mml, positions, i, k + 1)

RECURSIVE ScanNew(_, _, _, _, _, _)
ScanNew(old, new, mml, table, i, matches) ==
    IF i > Len(new) - mml THEN matches
    ELSE LET hash == rollingHash(Slice(new, i, Len(new)), mml)
             hit == IF hash \in DOMAIN table
                    THEN FirstLongEnough(old, new, mml, table[hash], i, 1)
                    ELSE [found |-> FALSE, pos |-> 0, matchLen |-> 0]
         IN  IF hit.found
             THEN ScanNew(old, new, mml, table, i + hit.matchLen - 1 + mml,
                     Append(matches, [OldOffset |-> hit.pos, NewOffset |-> i,
                                      Length |-> hit.matchLen]))
             ELSE ScanNew(old, new, mml, table, i + mml, matches)

RawMatches(hd, old, new) ==
    IF Len(old) = 0 \/ Len(new) = 0 THEN <<>>
    ELSE ScanNew(old, new, hd.MinMatchLength,
                 BuildHashTable(old, hd.MinMatchLength, 0, EmptyMap), 0, <<>>)

findMatches(hd, old, new) ==
    IF Len(old) = 0 \/ Len(new) = 0 THEN <<>>
    ELSE mergeAdjacentMatches(hd, RawMatches(hd, old, new))

(***************************************************************************)
(* AnalyzeBinaryDiff.  The float fields AverageMatchSize and               *)
(* CompressionRatio are kept as exact fractions <<numerator, denominator>>.*)
(***************************************************************************)
RECURSIVE AnalyzeLoop(_, _, _)
AnalyzeLoop(matches, k, acc) ==
    IF k > Len(matches) THEN acc
    ELSE LET m == matches[k]
         IN  AnalyzeLoop(matches, k + 1,
                [totalSize |-> acc.totalSize + m.Length,
                 largest |-> IF m.Length > acc.largest THEN m.Length ELSE acc.largest,
                 smallest |-> IF m.Length < acc.smallest THEN m.Length ELSE acc.smallest])

AnalyzeBinaryDiff(hd, old, new) ==
    LET matches == findMatches(hd, old, new)
        base == [EmptyStats EXCEPT !.MatchCount = Len(matches),
                                   !.SmallestMatch = hd.MinMatchLength]
    IN  IF Len(matches) = 0
        THEN [base EXCEPT !.CompressionRatio = <<1, 1>>]
        ELSE LET acc == AnalyzeLoop(matches, 1,
                            [totalSize |-> 0, largest |-> 0,
                             smallest |-> hd.MinMatchLength])
             IN  [base EXCEPT !.LargestMatch = acc.largest,
                              !.SmallestMatch = acc.smallest,
                              !.TotalMatchedBytes = acc.totalSize,
                              !.AverageMatchSize = <<acc.totalSize, Len(matches)>>,
                              !.CompressionRatio = <<Len(new), acc.totalSize>>,
                              !.Entropy = calculateEntropy(new)]

(***************************************************************************)
(* GenericBinaryHandler.Compare.  The result records the returned chunks,  *)
(* whether the call ended in a run-time panic (a slice expression out of   *)
(* range) and the handler's fields after the call.                         *)
(***************************************************************************)
BinaryChunk(off, oldData, newData) ==
    [Offset |-> off, OldData |-> oldData, NewData |-> newData, ChunkType |-> "binary"]

RECURSIVE ChunkLoop(_, _, _, _, _, _, _)
ChunkLoop(old, new, matches, k, lastOldEnd, lastNewEnd, chunks) ==
    IF k > Len(matches)
    THEN [panicked |-> FALSE, chunks |-> chunks,
          lastOldEnd |-> lastOldEnd, lastNewEnd |-> lastNewEnd]
    ELSE LET match == matches[k]
         IN  IF match.NewOffset > lastNewEnd
                /\ ~(SliceOk(old, lastOldEnd, match.OldOffset)
                     /\ SliceOk(new, lastNewEnd, match.NewOffset))
             THEN [panicked |-> TRUE, chunks |-> chunks,
                   lastOldEnd |-> lastOldEnd, lastNewEnd |-> lastNewEnd]
             ELSE ChunkLoop(old, new, matches, k + 1,
                     match.OldOffset + match.Length,
                     match.NewOffset + match.Length,
                     IF match.NewOffset > lastNewEnd
                     THEN Append(chunks,
                            BinaryChunk(lastOldEnd,
                                Slice(old, lastOldEnd, match.OldOffset),
                                Slice(new, lastNewEnd, match.NewOffset)))
                     ELSE chunks)

CompareChunks(hd, old, new) ==
    LET loop == ChunkLoop(old, new, findMatches(hd, old, new), 1, 0, 0, <<>>)
    IN  IF loop.panicked THEN loop
        ELSE IF loop.lastNewEnd < Len(new)
        THEN IF SliceOk(old, loop.lastOldEnd, Len(old))
             THEN [loop EXCEPT !.chunks =
                      Append(@, BinaryChunk(loop.lastOldEnd,
                                   Slice(old, loop.lastOldEnd, Len(old)),
                                   Slice(new, loop.lastNewEnd, Len(new))))]
             ELSE [loop EXCEPT !.panicked = TRUE]
        ELSE loop

\* Compare from findMatches on, with the fields OptimizeBinaryDiff has set
CompareAfterOptimize(opt, old, new) ==
    LET built == CompareChunks(opt, old, new)
    IN  IF built.panicked
        THEN [chunks |-> <<>>, err |-> FALSE, panicked |-> TRUE, hd |-> opt]
        ELSE [chunks |-> built.chunks, err |-> FALSE, panicked |-> FALSE,
              hd |-> [opt EXCEPT !.Stats =
                        [AnalyzeBinaryDiff(opt, old, new) EXCEPT
                            !.ChunkCount = Len(built.chunks),
                            !.Entropy = calculateEntropy(new)]]]

BinaryCompare(hd, old, new) ==
    IF old = new
    THEN [chunks |-> <<>>, err |-> FALSE, panicked |-> FALSE, hd |-> hd]
    ELSE CompareAfterOptimize(OptimizeBinaryDiff(hd, new), old, new)

GetLatestStats(hd) == hd.Stats

(***************************************************************************)
(* GenericBinaryHandler.Patch: offset-driven replay of the chunks.         *)
(***************************************************************************)
RECURSIVE BinaryPatchLoop(_, _, _, _, _)
BinaryPatchLoop(original, chunks, k, lastOffset, result) ==
    IF k > Len(chunks)
    THEN [panicked |-> FALSE,
          data |-> IF lastOffset < Len(original)
                   THEN result \o Slice(original, lastOffset, Len(original))
                   ELSE result]
    ELSE LET chunk == chunks[k]
         IN  IF chunk.Offset > lastOffset
                /\ ~SliceOk(original, lastOffset, chunk.Offset)
             THEN [panicked |-> TRUE, data |-> result]
             ELSE BinaryPatchLoop(original, chunks, k + 1,
                     chunk.Offset + Len(chunk.OldData),
                     (IF chunk.Offset > lastOffset
                      THEN result \o Slice(original, lastOffset, chunk.Offset)
                      ELSE result) \o chunk.NewData)

BinaryPatch(original, chunks) ==
    IF Len(chunks) = 0 THEN [panicked |-> FALSE, data |-> original]
    ELSE BinaryPatchLoop(original, chunks, 1, 0, <<>>)

(***************************************************************************)
(* TextFileHandler.Compare: bytes.Split on the line feed, then a           *)
(* line-by-line comparison by index up to the shorter line count.          *)
(***************************************************************************)
RECURSIVE SplitFrom(_, _, _, _)
SplitFrom(data, i, cur, lines) ==
    IF i > Len(data) THEN Append(lines, cur)
    ELSE IF data[i] = NL THEN SplitFrom(data, i + 1, <<>>, Append(lines, cur))
    ELSE SplitFrom(data, i + 1, Append(cur, data[i]), lines)

SplitLines(data) == SplitFrom(data, 1, <<>>, <<>>)

\* TextChunk with the two payloads the other way round
TextChunkSwapped(off, oldData, newData) ==
    [Offset |-> off, OldData |-> newData, NewData |-> oldData, ChunkType |-> "text"]

TextChunk(off, oldData, newData) ==
    [Offset |-> off, OldData |-> oldData, NewData |-> newData, ChunkType |-> "text"]

\* TextLoop that does not advance the offset
RECURSIVE TextLoopStuck(_, _, _, _, _)
TextLoopStuck(oldLines, newLines, i, offset, chunks) ==
    IF ~(i < Len(oldLines) /\ i < Len(newLines)) THEN chunks
    ELSE TextLoopStuck(oldLines, newLines, i + 1, offset,
            IF oldLines[i + 1] # newLines[i + 1]
            THEN Append(chunks, TextChunk(offset, oldLines[i + 1], newLines[i + 1]))
            ELSE chunks)

RECURSIVE TextLoop(_, _, _, _, _)
TextLoop(oldLines, newLines, i, offset, chunks) ==
    IF ~(i < Len(oldLines) /\ i < Len(newLines)) THEN chunks
    ELSE TextLoop(oldLines, newLines, i + 1, offset + Len(oldLines[i + 1]) + 1,
            IF oldLines[i + 1] # newLines[i + 1]
            THEN Append(chunks, TextChunk(offset, oldLines[i + 1], newLines[i + 1]))
            ELSE chunks)

TextCompare(old, new) ==
    IF old = new
    THEN [chunks |-> <<>>, err |-> FALSE, panicked |-> FALSE]
    ELSE [chunks |-> TextLoop(SplitLines(old), SplitLines(new), 0, 0, <<>>),
          err |-> FALSE, panicked |-> FALSE]

RECURSIVE TextPatchLoop(_, _, _, _, _)
TextPatchLoop(original, chunks, k, lastOffset, result) ==
    IF k > Len(chunks)
    THEN [panicked |-> FALSE,
          data |-> IF lastOffset < Len(original)
                   THEN result \o Slice(original, lastOffset, Len(original))
                   ELSE result]
    ELSE LET chunk == chunks[k]
         IN  IF ~SliceOk(original, lastOffset, chunk.Offset)
             THEN [panicked |-> TRUE, data |-> result]
             ELSE TextPatchLoop(original, chunks, k + 1,
                     chunk.Offset + Len(chunk.OldData),
                     result \o Slice(original, lastOffset, chunk.Offset)
                            \o chunk.NewData)

TextPatch(original, chunks) ==
    IF Len(chunks) = 0 THEN [panicked |-> FALSE, data |-> original]
    ELSE TextPatchLoop(original, chunks, 1, 0, <<>>)

(***************************************************************************)
(* Strings that the code inspects (paths, extensions, glob patterns) are   *)
(* sequences of one-character strings.  strings.ToLower maps the ASCII     *)
(* capitals to small letters and leaves every other character alone.       *)
(***************************************************************************)
LowerOf ==
    [A |-> "a", B |-> "b", C |-> "c", D |-> "d", E |-> "e", F |-> "f",
     G |-> "g", H |-> "h", I |-> "i", J |-> "j", K |-> "k", L |-> "l",
     M |-> "m", N |-> "n", O |-> "o", P |-> "p", Q |-> "q", R |-> "r",
     S |-> "s", T |-> "t", U |-> "u", V |-> "v", W |-> "w", X |-> "x",
     Y |-> "y", Z |-> "z"]

ToLowerChar(c) == IF c \in DOMAIN LowerOf THEN LowerOf[c] ELSE c

ToLower(str) == [i \in DOMAIN str |-> ToLowerChar(str[i])]

\* filepath.Ext: the suffix beginning at the last dot of the last path element
RECURSIVE ExtFrom(_, _)
ExtFrom(path, i) ==
    IF i < 1 \/ path[i] = "/" THEN <<>>
    ELSE IF path[i] = "." THEN SubSeq(path, i, Len(path))
    ELSE ExtFrom(path, i - 1)

Ext(path) == ExtFrom(path, Len(path))

\* filepath.Base of a non-empty path that does not end in a separator
RECURSIVE BaseFrom(_, _)
BaseFrom(path, i) ==
    IF i < 1 \/ path[i] = "/" THEN SubSeq(path, i + 1, Len(path))
    ELSE BaseFrom(path, i - 1)

Base(path) == BaseFrom(path, Len(path))

(***************************************************************************)
(* The handler registry of DiffEngine.  A handler is named by the instance *)
(* registered; HandlerType is what its GetFileType returns.                *)
(***************************************************************************)
DefaultHandler == "defaultHandler"

HandlerType(hid) ==
    CASE hid = DefaultHandler -> "binary"
      [] hid \in {"txtHandler", "logHandler", "mdHandler"} -> "text"
      [] OTHER -> "custom"

RegisterHandler(hs, ext, handler) ==
    [x \in (DOMAIN hs) \cup {ext} |-> IF x = ext THEN handler ELSE hs[x]]

initializeHandlers ==
    RegisterHandler(
        RegisterHandler(
            RegisterHandler(EmptyMap, <<".", "t", "x", "t">>, "txtHandler"),
            <<".", "l", "o", "g">>, "logHandler"),
        <<".", "m", "d">>, "mdHandler")

getHandler(hs, filename) ==
    LET ext == ToLower(Ext(filename))
    IN  IF ext \in DOMAIN hs THEN hs[ext] ELSE DefaultHandler

(***************************************************************************)
(* State.                                                                  *)
(*                                                                         *)
(* h        the fields of the engine's default GenericBinaryHandler        *)
(* hkind, bufOld, bufNew, hpc, ret, patched, calls                         *)
(*          a caller driving one handler: Compare, Patch, next Compare     *)
(* handlers the engine's extension -> handler map (DiffEngine.handlers)    *)
(* lastReg  history: for each lower-cased extension, the handler most      *)
(*          recently passed to RegisterHandler under it                    *)
(* regs, lookName, lookGot                                                 *)
(*          a caller registering handlers and looking one up               *)
(* tree, oldOnly, cfg                                                      *)
(*          the inputs of one CompareDirs run: the entries of the new      *)
(*          tree in walk order, the entries only the old tree has, and the *)
(*          engine's configuration                                         *)
(* mpc, wi, oi, retv                                                       *)
(*          the goroutine running CompareDirs: where it is, the next entry *)
(*          of the new-tree walk and of the old-tree walk, what it returned*)
(* wpc, wres, werr                                                         *)
(*          per dispatched entry, the worker goroutine: where it is, the   *)
(*          result and the error compareFiles gave it                      *)
(* sem, wg, mutex                                                          *)
(*          the semaphore channel's fill, the WaitGroup counter, the       *)
(*          holder of the mutex (0: free)                                  *)
(* results, summary                                                        *)
(*          the shared result slice and summary                            *)
(* origin   history: for each element of results, the entry it came from   *)
(* crashed  a goroutine panicked: the process is gone                      *)
(***************************************************************************)
VARIABLES h, hkind, bufOld, bufNew, hpc, ret, patched, calls,
          handlers, lastReg, regs, lookName, lookGot,
          tree, oldOnly, cfg, mpc, wi, oi, retv, wpc, wres, werr,
          sem, wg, mutex, results, summary, origin, crashed

hvars == <<hkind, bufOld, bufNew, hpc, ret, patched, calls>>

rvars == <<lastReg, regs, lookName, lookGot>>

dvars == <<tree, oldOnly, cfg, mpc, wi, oi, retv, wpc, wres, werr,
           sem, wg, mutex, results, summary, origin, crashed>>

vars == <<h, handlers, hvars, rvars, dvars>>

(***************************************************************************)
(* Inputs of a CompareDirs run.  A tree is the sequence of the entries     *)
(* filepath.Walk hands to the callback, in walk order, directories left    *)
(* out (the callback returns nil for them at once).  Each entry is one of  *)
(* the cases below: a regular file of the new tree with its content, what  *)
(* the old tree holds at the same relative path, or an entry the walk      *)
(* reports with an error.  The first entry lies in the root, every later   *)
(* one in a sub-directory of its own.                                      *)
(***************************************************************************)
CfgMaxFileSizeBytes == 12
MaxFiles == 2
MaxOldOnly == 1
MaxConcurrency == 2

Ones(n) == [k \in 1..n |-> 1]

FileCase(name, old, oldData, readable, newData) ==
    [kind |-> "file", name |-> name, old |-> old, oldData |-> oldData,
     readable |-> readable, newData |-> newData, size |-> Len(newData)]

BinName == <<"a", ".", "b", "i", "n">>

TxtName == <<"a", ".", "t", "x", "t">>

TmpName == <<"a", ".", "t", "m", "p">>

CstName == <<"a", ".", "c", "s", "t">>

Case(id) ==
    CASE id = "addBin" -> FileCase(BinName, "none", <<>>, TRUE, <<1>>)
      [] id = "modBin" -> FileCase(BinName, "file", <<1>>, TRUE, <<1, 1>>)
      [] id = "cutBin" -> FileCase(BinName, "file", <<1, 1, 1, 1, NL>>, TRUE, <<1, 1, 1, 1>>)
      [] id = "panicBin" ->
            FileCase(BinName, "file", Ones(4), TRUE,
                     Ones(4) \o <<NL, NL, NL>> \o Ones(5))
      [] id = "modTxt" -> FileCase(TxtName, "file", <<1, NL, 1>>, TRUE, <<1, NL, NL>>)
      [] id = "cutTxt" -> FileCase(TxtName, "file", <<1, NL, 1>>, TRUE, <<1>>)
      [] id = "same" -> FileCase(BinName, "file", <<1>>, TRUE, <<1>>)
      [] id = "big" ->
            FileCase(BinName, "file", <<1>>, TRUE, Ones(CfgMaxFileSizeBytes + 1))
      [] id = "ignored" -> FileCase(TmpName, "file", <<1>>, TRUE, <<1, 1>>)
      [] id = "noRead" -> FileCase(BinName, "file", <<1>>, FALSE, <<1, 1>>)
      [] id = "failCst" -> FileCase(CstName, "file", <<1>>, TRUE, <<1, 1>>)
      [] id = "walkErr" ->
            [kind |-> "walkErr", name |-> <<"e">>, old |-> "none", oldData |-> <<>>,
             readable |-> FALSE, newData |-> <<>>, size |-> 0]

CaseIds ==
    {"addBin", "modBin", "cutBin", "panicBin", "modTxt", "cutTxt", "same",
     "big", "ignored", "noRead", "failCst", "walkErr"}

OldOnlyKinds == {"file", "walkErr"}

DirNames == <<"", "p", "q", "r", "s">>

DirPrefix(i) == IF i = 1 THEN <<>> ELSE <<DirNames[i], "/">>

RelPathOf(t, i) == DirPrefix(i) \o Case(t[i]).name

NewDir == <<"n">>

OldDir == <<"o">>

Join(dir, rel) == dir \o <<"/">> \o rel

OldOnlyNames == <<"w", "x", "y", "z">>

OldOnlyRelPath(k) == <<OldOnlyNames[k], ".", "b", "i", "n">>

OldOnlyData == <<1>>

\* the entries of the old tree in walk order: those it shares with the new
\* tree, then those only it has
RECURSIVE SharedFrom(_, _)
SharedFrom(t, i) ==
    IF i > Len(t) THEN <<>>
    ELSE (IF Case(t[i]).old # "none" THEN <<[kind |-> "shared", idx |-> i]>> ELSE <<>>)
            \o SharedFrom(t, i + 1)

OldEntries(t, oo) ==
    SharedFrom(t, 1) \o [k \in DOMAIN oo |-> [kind |-> oo[k], idx |-> k]]

(***************************************************************************)
(* filepath.Match for patterns made of literal characters and '*' (any     *)
(* run of characters other than the separator).                            *)
(***************************************************************************)
RECURSIVE MatchFrom(_, _, _, _)
MatchFrom(pattern, i, name, j) ==
    IF i > Len(pattern) THEN j > Len(name)
    ELSE IF pattern[i] = "*"
    THEN \E k \in j..(Len(name) + 1) :
            /\ \A m \in j..(k - 1) : name[m] # "/"
            /\ MatchFrom(pattern, i + 1, name, k)
    ELSE /\ j <= Len(name)
         /\ name[j] = pattern[i]
         /\ MatchFrom(pattern, i + 1, name, j + 1)

Match(pattern, name) == MatchFrom(pattern, 1, name, 1)

Ignored(c, relPath) ==
    \E k \in DOMAIN c.IgnorePatterns : Match(c.IgnorePatterns[k], relPath)

Configs ==
    [CompressPatches : BOOLEAN,
     Concurrency : 1..MaxConcurrency,
     IgnorePatterns : {<< <<"*", ".", "t", "m", "p">> >>},
     MaxFileSizeBytes : {CfgMaxFileSizeBytes}]

(***************************************************************************)
(* utils.go.  A gzip stream is kept as its two magic bytes followed by the *)
(* payload; a hash as the content it was taken of.                         *)
(***************************************************************************)
GzipID1 == 31
GzipID2 == 139

compressData(data, compress) ==
    IF ~compress THEN data ELSE <<GzipID1, GzipID2>> \o data

NoHash == [ok |-> FALSE, of |-> <<>>]

calculateHash(exists, data) ==
    IF exists THEN [ok |-> TRUE, of |-> data] ELSE NoHash

(***************************************************************************)
(* compareFiles.  The handler of a custom extension is caller code: the    *)
(* one registered here returns an error from Compare.                      *)
(***************************************************************************)
CustomCompare(hid, old, new) ==
    [chunks |-> <<>>, err |-> (hid = "failing"), panicked |-> FALSE]

NoResult ==
    [Path |-> <<>>, Operation |-> "none", OldHash |-> NoHash, NewHash |-> NoHash,
     Chunks |-> <<>>, FileType |-> "", Size |-> 0, ModTime |-> <<"none", 0>>,
     IsCompressed |-> FALSE]

\* AddedResult whose chunk holds the content as it is, whatever CompressPatches
AddedResultRaw(t, c, hs, i) ==
    LET f == Case(t[i])
        newPath == Join(NewDir, RelPathOf(t, i))
        ftype == HandlerType(getHandler(hs, newPath))
    IN  [Path |-> Base(newPath), Operation |-> "added", OldHash |-> NoHash,
         NewHash |-> calculateHash(TRUE, f.newData),
         Chunks |-> <<[Offset |-> 0, OldData |-> <<>>, NewData |-> f.newData,
                       ChunkType |-> ftype]>>,
         FileType |-> ftype, Size |-> f.size, ModTime |-> <<"new", i>>,
         IsCompressed |-> c.CompressPatches]

AddedResult(t, c, hs, i) ==
    LET f == Case(t[i])
        newPath == Join(NewDir, RelPathOf(t, i))
        ftype == HandlerType(getHandler(hs, newPath))
    IN  [Path |-> Base(newPath), Operation |-> "added", OldHash |-> NoHash,
         NewHash |-> calculateHash(TRUE, f.newData),
         Chunks |-> <<[Offset |-> 0, OldData |-> <<>>,
                       NewData |-> compressData(f.newData, c.CompressPatches),
                       ChunkType |-> ftype]>>,
         FileType |-> ftype, Size |-> f.size, ModTime |-> <<"new", i>>,
         IsCompressed |-> c.CompressPatches]

CompressChunks(chunks, c) ==
    IF c.CompressPatches
    THEN [k \in DOMAIN chunks |->
            [chunks[k] EXCEPT !.NewData = compressData(@, TRUE)]]
    ELSE chunks

ModifiedResult(t, c, hs, i, chunks) ==
    LET f == Case(t[i])
        newPath == Join(NewDir, RelPathOf(t, i))
    IN  [Path |-> Base(newPath), Operation |-> "modified",
         OldHash |-> calculateHash(f.old = "file", f.oldData),
         NewHash |-> calculateHash(f.readable, f.newData),
         Chunks |-> CompressChunks(chunks, c),
         FileType |-> HandlerType(getHandler(hs, newPath)),
         Size |-> f.size, ModTime |-> <<"new", i>>,
         IsCompressed |-> c.CompressPatches]

\* what compareFiles returns once the handler's Compare has returned out
AfterCompare(t, c, hs, i, out) ==
    IF out.err THEN [pc |-> "exiting", res |-> NoResult, err |-> TRUE]
    ELSE IF Len(out.chunks) = 0
    THEN [pc |-> "exiting", res |-> NoResult, err |-> FALSE]
    ELSE [pc |-> "haveResult", res |-> ModifiedResult(t, c, hs, i, out.chunks),
          err |-> FALSE]

\* compareFiles up to the call of the handler's Compare
BeforeCompare(t, c, hs, i) ==
    LET f == Case(t[i])
        handler == getHandler(hs, Join(NewDir, RelPathOf(t, i)))
    IN  IF f.old = "none"
        THEN IF ~f.readable
             THEN [pc |-> "exiting", res |-> NoResult, err |-> TRUE]
             ELSE [pc |-> "haveResult", res |-> AddedResult(t, c, hs, i), err |-> FALSE]
        ELSE IF f.old = "unreadable" \/ ~f.readable
        THEN [pc |-> "exiting", res |-> NoResult, err |-> TRUE]
        ELSE IF f.oldData = f.newData
        THEN [pc |-> "exiting", res |-> NoResult, err |-> FALSE]
        ELSE IF HandlerType(handler) = "binary"
        THEN [pc |-> "inCompare", res |-> NoResult, err |-> FALSE]
        ELSE IF HandlerType(handler) = "text"
        THEN AfterCompare(t, c, hs, i, TextCompare(f.oldData, f.newData))
        ELSE AfterCompare(t, c, hs, i, CustomCompare(handler, f.oldData, f.newData))

\* DeletedResult that leaves the old hash out
DeletedResultNoHash(k) ==
    [Path |-> OldOnlyRelPath(k), Operation |-> "deleted",
     OldHash |-> NoHash, NewHash |-> NoHash,
     Chunks |-> <<>>, FileType |-> "", Size |-> Len(OldOnlyData),
     ModTime |-> <<"old", k>>, IsCompressed |-> FALSE]

DeletedResult(k) ==
    [Path |-> OldOnlyRelPath(k), Operation |-> "deleted",
     OldHash |-> calculateHash(TRUE, OldOnlyData), NewHash |-> NoHash,
     Chunks |-> <<>>, FileType |-> "", Size |-> Len(OldOnlyData),
     ModTime |-> <<"old", k>>, IsCompressed |-> FALSE]

NewSummary ==
    [TotalFiles |-> 0, AddedFiles |-> 0, ModifiedFiles |-> 0, DeletedFiles |-> 0,
     TotalSizeBytes |-> 0, CompressedBytes |-> 0, FileTypes |-> EmptyMap]

Incr(m, k) ==
    [x \in (DOMAIN m) \cup {k} |-> IF x = k
                                   THEN (IF k \in DOMAIN m THEN m[k] + 1 ELSE 1)
                                   ELSE m[x]]

\* Aggregate without the FileTypes count
AggregateNoTypes(sm, res, size) ==
    [sm EXCEPT !.TotalFiles = @ + 1,
               !.AddedFiles = IF res.Operation = "added" THEN @ + 1 ELSE @,
               !.ModifiedFiles = IF res.Operation = "modified" THEN @ + 1 ELSE @,
               !.TotalSizeBytes = @ + size,
               !.CompressedBytes = IF res.IsCompressed
                                   THEN @ + Len(res.Chunks[1].NewData) ELSE @]

\* the critical section of the worker goroutine
Aggregate(sm, res, size) ==
    [sm EXCEPT !.TotalFiles = @ + 1,
               !.AddedFiles = IF res.Operation = "added" THEN @ + 1 ELSE @,
               !.ModifiedFiles = IF res.Operation = "modified" THEN @ + 1 ELSE @,
               !.TotalSizeBytes = @ + size,
               !.CompressedBytes = IF res.IsCompressed
                                   THEN @ + Len(res.Chunks[1].NewData) ELSE @,
               !.FileTypes = Incr(@, res.FileType)]

\* what CompareDirs returned: a nil or non-nil *DiffSummary, the result slice
\* (nil is the empty sequence) and whether the error is non-nil
NoReturn == [summaryNil |-> TRUE, summary |-> NewSummary, results |-> <<>>, err |-> FALSE]

Return(sm, rs, e) == [summaryNil |-> FALSE, summary |-> sm, results |-> rs, err |-> e]

ReturnError == [summaryNil |-> TRUE, summary |-> NewSummary, results |-> <<>>, err |-> TRUE]

DirsIdle ==
    /\ tree = <<>>
    /\ oldOnly = <<>>
    /\ cfg = [CompressPatches |-> FALSE, Concurrency |-> 1,
              IgnorePatterns |-> <<>>, MaxFileSizeBytes |-> 0]
    /\ mpc = "off"
    /\ wi = 0
    /\ oi = 0
    /\ retv = NoReturn
    /\ wpc = <<>>
    /\ wres = <<>>
    /\ werr = <<>>
    /\ sem = 0
    /\ wg = 0
    /\ mutex = 0
    /\ results = <<>>
    /\ summary = NewSummary
    /\ origin = <<>>
    /\ crashed = FALSE

(***************************************************************************)
(* Inputs of the handler calls: every pair of short buffers, a new buffer  *)
(* that repeats a block of old after a gap, and two blocks of old swapped. *)
(***************************************************************************)
Blocks == SeqsOfLen(Bytes, LowMinMatchLength)

Gaps == SeqsOfLen(Bytes, GapLen)

Tails == SeqsUpTo(Bytes, MaxTail)

ShortPairs == SeqsUpTo(Bytes, MaxOldLen) \X SeqsUpTo(Bytes, MaxNewLen)

RepeatPairs == {<<o, o \o g \o o \o t>> : o \in Blocks, g \in Gaps, t \in Tails}

SwapPairs ==
    {<<x \o y, y \o g \o x>> : x \in Blocks, y \in {<<1, 1, 1, 1>>}, g \in Gaps}

\* a block both buffers have, after prefixes of a block's length or none
PrefixPairs ==
    {<<p \o y, q \o y \o t>> :
        p \in {<<>>, <<NL, NL, NL, NL>>}, q \in Blocks, y \in {<<1, 1, 1, 1>>}, t \in Tails}

InputPairs == ShortPairs \cup RepeatPairs \cup SwapPairs \cup PrefixPairs

NoRet == [chunks |-> <<>>, err |-> FALSE, panicked |-> FALSE]

NoPatch == [done |-> FALSE, panicked |-> FALSE, data |-> <<>>]

HandlerIdle ==
    /\ hkind = "binary"
    /\ bufOld = <<>>
    /\ bufNew = <<>>
    /\ hpc = "off"
    /\ ret = NoRet
    /\ patched = NoPatch
    /\ calls = 0

RegistryIdle ==
    /\ lastReg = EmptyMap
    /\ regs = 0
    /\ lookName = <<>>
    /\ lookGot = "none"

HandlerInit ==
    /\ h = NewGenericBinaryHandler
    /\ handlers = initializeHandlers
    /\ RegistryIdle
    /\ DirsIdle
    /\ hkind \in {"binary", "text"}
    /\ \E p \in InputPairs : bufOld = p[1] /\ bufNew = p[2]
    /\ hpc = "idle"
    /\ ret = NoRet
    /\ patched = NoPatch
    /\ calls = 0

\* handler.Compare(bufOld, bufNew)
CompareCall ==
    /\ hpc = "idle"
    /\ LET r == IF hkind = "binary"
                THEN BinaryCompare(h, bufOld, bufNew)
                ELSE TextCompare(bufOld, bufNew) @@ [hd |-> h]
       IN  /\ ret' = [chunks |-> r.chunks, err |-> r.err, panicked |-> r.panicked]
           /\ h' = r.hd
           /\ hpc' = IF r.panicked THEN "panicked" ELSE "compared"
    /\ calls' = calls + 1
    /\ patched' = NoPatch
    /\ UNCHANGED <<hkind, bufOld, bufNew, handlers, rvars, dvars>>

\* handler.Patch(bufOld, chunks) on the chunks Compare returned
PatchCall ==
    /\ hpc = "compared"
    /\ LET r == IF hkind = "binary"
                THEN BinaryPatch(bufOld, ret.chunks)
                ELSE TextPatch(bufOld, ret.chunks)
       IN  patched' = [done |-> TRUE, panicked |-> r.panicked, data |-> r.data]
    /\ hpc' = "patched"
    /\ UNCHANGED <<h, hkind, bufOld, bufNew, ret, calls, handlers, rvars, dvars>>

\* the caller goes on to compare another pair with the same handler: the
\* old buffer with itself, or the two buffers the other way round
NextCall ==
    /\ hpc \in {"compared", "patched"}
    /\ calls < MaxCalls
    /\ \E p \in {<<bufOld, bufOld>>, <<bufNew, bufOld>>} :
            bufOld' = p[1] /\ bufNew' = p[2]
    /\ hpc' = "idle"
    /\ UNCHANGED <<h, hkind, ret, patched, calls, handlers, rvars, dvars>>

HandlerNext == CompareCall \/ PatchCall \/ NextCall

SpecHandler == HandlerInit /\ [][HandlerNext]_vars

(***************************************************************************)
(* C1: round trip: Patch(old, Compare(old, new)) of the generic binary     *)
(* handler returns exactly new, for all byte buffers old and new.          *)
(***************************************************************************)
C1_RoundTrip ==
    hkind = "binary" =>
        /\ hpc # "panicked"
        /\ hpc = "patched" => (~patched.panicked /\ patched.data = bufNew)

(***************************************************************************)
(* C2: the generic binary handler's Compare returns an empty chunk         *)
(* sequence if and only if old = new.                                      *)
(***************************************************************************)
C2_EmptyIffEqual ==
    (hkind = "binary" /\ hpc = "compared") =>
        (Len(ret.chunks) = 0 <=> bufOld = bufNew)

MaxExtLen == 2
MaxRegs == 2

ExtLetters == {"c", "C"}

RegExts == {<<".">> \o t : t \in SeqsUpTo(ExtLetters, MaxExtLen)}

CustomHandlers == {"custom1", "custom2"}

LookupNames ==
    {<<"x">> \o e : e \in RegExts \cup {<<>>, <<".", "t", "x", "t">>, <<".", "T", "X", "T">>}}
        \cup {<<"d", ".", "c", "/", "x">>}

RegistryInit ==
    /\ h = NewGenericBinaryHandler
    /\ handlers = initializeHandlers
    /\ lastReg = initializeHandlers
    /\ regs = 0
    /\ lookName = <<>>
    /\ lookGot = "none"
    /\ HandlerIdle
    /\ DirsIdle

\* engine.RegisterHandler(ext, handler)
Register ==
    /\ regs < MaxRegs
    /\ \E ext \in RegExts, handler \in CustomHandlers :
        /\ handlers' = RegisterHandler(handlers, ext, handler)
        /\ lastReg' = RegisterHandler(lastReg, ToLower(ext), handler)
    /\ regs' = regs + 1
    /\ lookName' = <<>>
    /\ lookGot' = "none"
    /\ UNCHANGED <<h, hvars, dvars>>

\* engine.getHandler(filename)
Lookup ==
    /\ \E name \in LookupNames :
        /\ lookName' = name
        /\ lookGot' = getHandler(handlers, name)
    /\ UNCHANGED <<h, handlers, lastReg, regs, hvars, dvars>>

RegistryNext == Register \/ Lookup

SpecRegistry == RegistryInit /\ [][RegistryNext]_vars

(***************************************************************************)
(* C9: handler lookup is case-insensitive on the extension: getHandler     *)
(* returns the handler most recently registered under an extension equal   *)
(* to the file name's extension ignoring letter case, and the default      *)
(* binary handler when there is no such registration.                      *)
(***************************************************************************)
C9_CaseInsensitiveLookup ==
    lookGot # "none" =>
        lookGot = IF ToLower(Ext(lookName)) \in DOMAIN lastReg
                  THEN lastReg[ToLower(Ext(lookName))]
                  ELSE DefaultHandler

(***************************************************************************)
(* DiffEngine.CompareDirs.                                                 *)
(***************************************************************************)
Init ==
    /\ h = NewGenericBinaryHandler
    /\ handlers = RegisterHandler(initializeHandlers, <<".", "c", "s", "t">>, "failing")
    /\ HandlerIdle
    /\ RegistryIdle
    /\ tree \in SeqsUpTo(CaseIds, MaxFiles)
    /\ oldOnly \in SeqsUpTo(OldOnlyKinds, MaxOldOnly)
    /\ cfg \in Configs
    /\ mpc = "walkNew"
    /\ wi = 1
    /\ oi = 1
    /\ retv = NoReturn
    /\ wpc = [i \in DOMAIN tree |-> "idle"]
    /\ wres = [i \in DOMAIN tree |-> NoResult]
    /\ werr = [i \in DOMAIN tree |-> FALSE]
    /\ sem = 0
    /\ wg = 0
    /\ mutex = 0
    /\ results = <<>>
    /\ summary = NewSummary
    /\ origin = <<>>
    /\ crashed = FALSE

Static == <<handlers, hvars, rvars, tree, oldOnly, cfg>>

\* WalkNewVisit without the size check and the ignore-pattern loop
WalkNewVisitNoFilter ==
    /\ ~crashed
    /\ mpc = "walkNew"
    /\ wi <= Len(tree)
    /\ IF Case(tree[wi]).kind = "walkErr"
       THEN /\ mpc' = "returned"
            /\ retv' = ReturnError
            /\ UNCHANGED <<wi, wg>>
       ELSE /\ wg' = wg + 1
            /\ mpc' = "acquire"
            /\ UNCHANGED <<wi, retv>>
    /\ UNCHANGED <<h, Static, oi, wpc, wres, werr, sem, mutex, results, summary,
                   origin, crashed>>

\* the callback of the new-tree walk up to wg.Add(1)
WalkNewVisit ==
    /\ ~crashed
    /\ mpc = "walkNew"
    /\ wi <= Len(tree)
    /\ LET f == Case(tree[wi])
       IN  IF f.kind = "walkErr"
           THEN /\ mpc' = "returned"
                /\ retv' = ReturnError
                /\ UNCHANGED <<wi, wg>>
           ELSE IF f.size > cfg.MaxFileSizeBytes \/ Ignored(cfg, RelPathOf(tree, wi))
           THEN /\ wi' = wi + 1
                /\ UNCHANGED <<mpc, retv, wg>>
           ELSE /\ wg' = wg + 1
                /\ mpc' = "acquire"
                /\ UNCHANGED <<wi, retv>>
    /\ UNCHANGED <<h, Static, oi, wpc, wres, werr, sem, mutex, results, summary,
                   origin, crashed>>

\* Acquire with a channel that never blocks the sender
AcquireUnbounded ==
    /\ ~crashed
    /\ mpc = "acquire"
    /\ sem' = sem + 1
    /\ wpc' = [wpc EXCEPT ![wi] = "start"]
    /\ wi' = wi + 1
    /\ mpc' = "walkNew"
    /\ UNCHANGED <<h, Static, oi, retv, wres, werr, wg, mutex, results, summary,
                   origin, crashed>>

\* semaphore <- struct{}{} and the go statement
Acquire ==
    /\ ~crashed
    /\ mpc = "acquire"
    /\ sem < cfg.Concurrency
    /\ sem' = sem + 1
    /\ wpc' = [wpc EXCEPT ![wi] = "start"]
    /\ wi' = wi + 1
    /\ mpc' = "walkNew"
    /\ UNCHANGED <<h, Static, oi, retv, wres, werr, wg, mutex, results, summary,
                   origin, crashed>>

\* filepath.Walk(newDir) returns nil
WalkNewEnd ==
    /\ ~crashed
    /\ mpc = "walkNew"
    /\ wi > Len(tree)
    /\ mpc' = "wait"
    /\ UNCHANGED <<h, Static, wi, oi, retv, wpc, wres, werr, sem, wg, mutex,
                   results, summary, origin, crashed>>

\* Wait that does not wait for the counter to reach zero
WaitNoJoin ==
    /\ ~crashed
    /\ mpc = "wait"
    /\ mpc' = "walkOld"
    /\ UNCHANGED <<h, Static, wi, oi, retv, wpc, wres, werr, sem, wg, mutex,
                   results, summary, origin, crashed>>

\* wg.Wait()
Wait ==
    /\ ~crashed
    /\ mpc = "wait"
    /\ wg = 0
    /\ mpc' = "walkOld"
    /\ UNCHANGED <<h, Static, wi, oi, retv, wpc, wres, werr, sem, wg, mutex,
                   results, summary, origin, crashed>>

\* the callback of the old-tree walk
WalkOldVisit ==
    /\ ~crashed
    /\ mpc = "walkOld"
    /\ oi <= Len(OldEntries(tree, oldOnly))
    /\ LET e == OldEntries(tree, oldOnly)[oi]
       IN  IF e.kind = "walkErr"
           THEN /\ mpc' = "returned"
                /\ retv' = Return(summary, results, TRUE)
                /\ UNCHANGED <<oi, results, summary, origin>>
           ELSE IF e.kind = "shared"
           THEN /\ oi' = oi + 1
                /\ UNCHANGED <<mpc, retv, results, summary, origin>>
           ELSE /\ summary' = [summary EXCEPT !.DeletedFiles = @ + 1,
                                              !.TotalFiles = @ + 1]
                /\ results' = Append(results, DeletedResult(e.idx))
                /\ origin' = Append(origin, <<"old", e.idx>>)
                /\ oi' = oi + 1
                /\ UNCHANGED <<mpc, retv>>
    /\ UNCHANGED <<h, Static, wi, wpc, wres, werr, sem, wg, mutex, crashed>>

\* WalkOldEnd that reports a per-file error of a worker as the run's error
WalkOldEndPropagating ==
    /\ ~crashed
    /\ mpc = "walkOld"
    /\ oi > Len(OldEntries(tree, oldOnly))
    /\ mpc' = "returned"
    /\ retv' = Return(summary, results, \E i \in DOMAIN tree : werr[i])
    /\ UNCHANGED <<h, Static, wi, oi, wpc, wres, werr, sem, wg, mutex, results,
                   summary, origin, crashed>>

\* filepath.Walk(oldDir) returns nil; return summary, results, err
WalkOldEnd ==
    /\ ~crashed
    /\ mpc = "walkOld"
    /\ oi > Len(OldEntries(tree, oldOnly))
    /\ mpc' = "returned"
    /\ retv' = Return(summary, results, FALSE)
    /\ UNCHANGED <<h, Static, wi, oi, wpc, wres, werr, sem, wg, mutex, results,
                   summary, origin, crashed>>

\* the worker runs compareFiles; with the generic binary handler it gets as
\* far as OptimizeBinaryDiff, which sets the handler's fields
WorkerStart(i) ==
    /\ ~crashed
    /\ wpc[i] = "start"
    /\ LET out == BeforeCompare(tree, cfg, handlers, i)
       IN  /\ wpc' = [wpc EXCEPT ![i] = out.pc]
           /\ wres' = [wres EXCEPT ![i] = out.res]
           /\ werr' = [werr EXCEPT ![i] = out.err]
           /\ h' = IF out.pc = "inCompare"
                   THEN OptimizeBinaryDiff(h, Case(tree[i]).newData)
                   ELSE h
    /\ UNCHANGED <<Static, mpc, wi, oi, retv, sem, wg, mutex, results, summary,
                   origin, crashed>>

\* the rest of GenericBinaryHandler.Compare, reading the handler's fields as
\* they are now and assigning h.Stats, and the rest of compareFiles
WorkerCompareEnd(i) ==
    /\ ~crashed
    /\ wpc[i] = "inCompare"
    /\ LET f == Case(tree[i])
           out == CompareAfterOptimize(h, f.oldData, f.newData)
           nxt == AfterCompare(tree, cfg, handlers, i, out)
       IN  IF out.panicked
           THEN /\ crashed' = TRUE
                /\ UNCHANGED <<h, wpc, wres, werr>>
           ELSE /\ h' = out.hd
                /\ wpc' = [wpc EXCEPT ![i] = nxt.pc]
                /\ wres' = [wres EXCEPT ![i] = nxt.res]
                /\ werr' = [werr EXCEPT ![i] = nxt.err]
                /\ UNCHANGED crashed
    /\ UNCHANGED <<Static, mpc, wi, oi, retv, sem, wg, mutex, results, summary,
                   origin>>

\* mutex.Lock()
WorkerLock(i) ==
    /\ ~crashed
    /\ wpc[i] = "haveResult"
    /\ mutex = 0
    /\ mutex' = i
    /\ wpc' = [wpc EXCEPT ![i] = "locked"]
    /\ UNCHANGED <<h, Static, mpc, wi, oi, retv, wres, werr, sem, wg, results,
                   summary, origin, crashed>>

\* the critical section and mutex.Unlock()
WorkerAggregate(i) ==
    /\ ~crashed
    /\ wpc[i] = "locked"
    /\ results' = Append(results, wres[i])
    /\ origin' = Append(origin, <<"new", i>>)
    /\ summary' = Aggregate(summary, wres[i], Case(tree[i]).size)
    /\ mutex' = 0
    /\ wpc' = [wpc EXCEPT ![i] = "exiting"]
    /\ UNCHANGED <<h, Static, mpc, wi, oi, retv, wres, werr, sem, wg, crashed>>

\* deferred: <-semaphore
WorkerRelease(i) ==
    /\ ~crashed
    /\ wpc[i] = "exiting"
    /\ sem' = sem - 1
    /\ wpc' = [wpc EXCEPT ![i] = "released"]
    /\ UNCHANGED <<h, Static, mpc, wi, oi, retv, wres, werr, wg, mutex, results,
                   summary, origin, crashed>>

\* deferred: wg.Done()
WorkerDone(i) ==
    /\ ~crashed
    /\ wpc[i] = "released"
    /\ wg' = wg - 1
    /\ wpc' = [wpc EXCEPT ![i] = "done"]
    /\ UNCHANGED <<h, Static, mpc, wi, oi, retv, wres, werr, sem, mutex, results,
                   summary, origin, crashed>>

Next ==
    \/ WalkNewVisit
    \/ Acquire
    \/ WalkNewEnd
    \/ Wait
    \/ WalkOldVisit
    \/ WalkOldEnd
    \/ \E i \in DOMAIN tree : WorkerStart(i)
    \/ \E i \in DOMAIN tree : WorkerCompareEnd(i)
    \/ \E i \in DOMAIN tree : WorkerLock(i)
    \/ \E i \in DOMAIN tree : WorkerAggregate(i)
    \/ \E i \in DOMAIN tree : WorkerRelease(i)
    \/ \E i \in DOMAIN tree : WorkerDone(i)

Spec == Init /\ [][Next]_vars

(***************************************************************************)
(* Vocabulary of the claims about CompareDirs.                             *)
(***************************************************************************)
\* the elements of results that came from entry i of the new tree
ResultsOf(i) == {k \in DOMAIN origin : origin[k][1] = "new" /\ origin[k][2] = i}

\* workers that hold an admission slot
Running ==
    {i \in DOMAIN tree : wpc[i] \in {"start", "inCompare", "haveResult", "locked", "exiting"}}

Finished(i) == wpc[i] \in {"idle", "done"}

ReturnedOk == mpc = "returned" /\ ~retv.err

NoWalkError ==
    /\ \A i \in DOMAIN tree : Case(tree[i]).kind # "walkErr"
    /\ \A k \in DOMAIN oldOnly : oldOnly[k] # "walkErr"

\* a regular file in both trees, readable, within the size limit, not
\* ignored, whose handler is the text or the binary one
Comparable(i) ==
    LET f == Case(tree[i])
    IN  /\ f.kind = "file"
        /\ f.old = "file"
        /\ f.readable
        /\ f.size <= cfg.MaxFileSizeBytes
        /\ ~Ignored(cfg, RelPathOf(tree, i))
        /\ HandlerType(getHandler(handlers, Join(NewDir, RelPathOf(tree, i))))
              \in {"text", "binary"}

(***************************************************************************)
(* C3: in CompareDirs every comparable file (in both trees, readable,      *)
(* within the size limit, not ignored) yields exactly one result, with     *)
(* operation modified, when its old and new contents differ, and no result *)
(* when they are equal.                                                    *)
(***************************************************************************)
C3_ModifiedReported ==
    ReturnedOk =>
        \A i \in DOMAIN tree :
            Comparable(i) =>
                IF Case(tree[i]).oldData # Case(tree[i]).newData
                THEN /\ Cardinality(ResultsOf(i)) = 1
                     /\ \A k \in ResultsOf(i) : retv.results[k].Operation = "modified"
                ELSE ResultsOf(i) = {}

(***************************************************************************)
(* C4: during the new-tree walk the result slice and the summary are       *)
(* written only by the holder of the mutex, and no two running jobs use    *)
(* any other common mutable state, in particular not the fields of the     *)
(* handler instance getHandler gave to both of them.                       *)
(***************************************************************************)
C4_SharedStateDiscipline ==
    /\ \A i \in DOMAIN tree : wpc[i] = "locked" => mutex = i
    /\ \A i, j \in DOMAIN tree :
          (i # j /\ wpc[i] = "inCompare" /\ wpc[j] = "inCompare") =>
              getHandler(handlers, Join(NewDir, RelPathOf(tree, i)))
                  # getHandler(handlers, Join(NewDir, RelPathOf(tree, j)))

(***************************************************************************)
(* C5: admission gate: at most cfg.Concurrency jobs hold a slot (have been *)
(* started and have not yet released it), and the semaphore's fill is      *)
(* exactly their number.                                                   *)
(***************************************************************************)
C5_AdmissionGate ==
    /\ Cardinality(Running) <= cfg.Concurrency
    /\ sem = Cardinality(Running)

C5_GateSaturated ==
    /\ mpc = "acquire"
    /\ Cardinality(Running) = cfg.Concurrency
    /\ wpc[wi] = "idle"

(***************************************************************************)
(* C6: join barrier: the old-tree scan runs only after every dispatched    *)
(* job has finished, so no deleted result and no DeletedFiles increment    *)
(* exists while a worker is running, and every deleted result follows      *)
(* every added or modified result.                                         *)
(***************************************************************************)
C6_JoinBarrier ==
    /\ (\/ mpc = "walkOld"
        \/ (mpc = "returned" /\ ~retv.summaryNil)
        \/ summary.DeletedFiles > 0
        \/ \E k \in DOMAIN results : results[k].Operation = "deleted")
          => \A i \in DOMAIN tree : Finished(i)
    /\ \A j, k \in DOMAIN results :
          (j < k /\ results[j].Operation = "deleted") => results[k].Operation = "deleted"

C6_DeletedAfterWorkers ==
    /\ ReturnedOk
    /\ \E j, k \in DOMAIN retv.results :
          /\ j < k
          /\ retv.results[j].Operation \in {"added", "modified"}
          /\ retv.results[k].Operation = "deleted"
    /\ \E i \in DOMAIN tree : wpc[i] = "done"

(***************************************************************************)
(* C7: per-file failure isolation: a job whose compareFiles returned an    *)
(* error appends no result and changes no summary counter; when the run    *)
(* returns after walks without error it returns a nil error, every slot    *)
(* and wait-group count is released, and the results of all other files    *)
(* are in the returned sequence.                                           *)
(***************************************************************************)
C7_Isolated ==
    /\ \A i \in DOMAIN tree : werr[i] => ResultsOf(i) = {}
    /\ (mpc = "returned" /\ NoWalkError) =>
          /\ ~retv.err
          /\ sem = 0
          /\ wg = 0
          /\ \A i \in DOMAIN tree :
                /\ werr[i] => wpc[i] = "done"
                /\ wres[i] # NoResult =>
                      \E k \in ResultsOf(i) : retv.results[k] = wres[i]

C7_FailingStep ==
    \A i \in DOMAIN tree :
        (werr'[i] /\ wpc'[i] # wpc[i]) => (results' = results /\ summary' = summary)

C7_FailureIsolation == [](C7_Isolated) /\ [][C7_FailingStep]_vars

C7_FailedAndReturned ==
    /\ ReturnedOk
    /\ \E i \in DOMAIN tree : werr[i] /\ wpc[i] = "done"
    /\ Len(retv.results) > 0

(***************************************************************************)
(* C8: CompareDirs returns either a summary and results or an error, never *)
(* both: with a non-nil error (a walk of either tree failed) the summary   *)
(* and the results are nil.                                                *)
(***************************************************************************)
C8_ErrorOrResults ==
    mpc = "returned" =>
        IF retv.err
        THEN retv.summaryNil /\ Len(retv.results) = 0
        ELSE ~retv.summaryNil

\* the size check and the ignore-pattern loop of the new-tree walk
TooBig(i) == Case(tree[i]).kind = "file" /\ Case(tree[i]).size > cfg.MaxFileSizeBytes

IgnoredFile(i) == Case(tree[i]).kind = "file" /\ Ignored(cfg, RelPathOf(tree, i))

\* the results with a given operation
WithOperation(rs, op) == {k \in DOMAIN rs : rs[k].Operation = op}

(***************************************************************************)
(* C11: a file of the new tree that is larger than MaxFileSizeBytes or     *)
(* matches an ignore pattern is never dispatched to a worker, no result    *)
(* originates from it, and the summary counts exactly the results there    *)
(* are, so the file is in none of added/modified/deleted even when the old *)
(* tree has it too.                                                        *)
(***************************************************************************)
C11_SkippedNeverCounted ==
    /\ \A i \in DOMAIN tree :
          (TooBig(i) \/ IgnoredFile(i)) =>
              /\ wpc[i] = "idle"
              /\ wres[i] = NoResult
              /\ ResultsOf(i) = {}
    /\ \A k \in DOMAIN origin :
          origin[k][1] = "old" =>
              /\ oldOnly[origin[k][2]] = "file"
              /\ \A i \in DOMAIN tree : RelPathOf(tree, i) # results[k].Path
    /\ summary.AddedFiles = Cardinality(WithOperation(results, "added"))
    /\ summary.ModifiedFiles = Cardinality(WithOperation(results, "modified"))
    /\ summary.DeletedFiles = Cardinality(WithOperation(results, "deleted"))
    /\ summary.TotalFiles = Len(results)

C11_SkippedBoth ==
    /\ ReturnedOk
    /\ \E i, j \in DOMAIN tree :
          /\ TooBig(i)
          /\ IgnoredFile(j)
          /\ Case(tree[i]).old = "file"
          /\ Case(tree[j]).old = "file"
          /\ Case(tree[j]).oldData # Case(tree[j]).newData

\* a readable file of the new tree that passes the filters and that the old
\* tree does not have
AddedFile(i) ==
    /\ Case(tree[i]).kind = "file"
    /\ Case(tree[i]).old = "none"
    /\ Case(tree[i]).readable
    /\ ~TooBig(i)
    /\ ~IgnoredFile(i)

(***************************************************************************)
(* C12: a readable new-tree file that passes the filters and has no        *)
(* counterpart in the old tree yields exactly one result, added, with one  *)
(* chunk at offset 0 whose NewData is the whole new content, compressed    *)
(* iff CompressPatches; no handler Compare runs for it; the step that      *)
(* appends its result adds one to AddedFiles and one to TotalFiles.        *)
(***************************************************************************)
C12_AddedResult ==
    \A i \in DOMAIN tree :
        AddedFile(i) =>
            /\ wpc[i] # "inCompare"
            /\ wpc[i] \in {"idle", "start", "haveResult", "locked"} => ResultsOf(i) = {}
            /\ wpc[i] \in {"exiting", "released", "done"} =>
                  /\ Cardinality(ResultsOf(i)) = 1
                  /\ \A k \in ResultsOf(i) :
                        /\ results[k].Operation = "added"
                        /\ Len(results[k].Chunks) = 1
                        /\ results[k].Chunks[1].Offset = 0
                        /\ results[k].Chunks[1].NewData =
                              IF cfg.CompressPatches
                              THEN <<GzipID1, GzipID2>> \o Case(tree[i]).newData
                              ELSE Case(tree[i]).newData
                        /\ results[k].IsCompressed = cfg.CompressPatches

C12_AddedStep ==
    \A i \in DOMAIN tree :
        AddedFile(i) =>
            /\ (wpc[i] = "start" /\ wpc'[i] # "start") => h' = h
            /\ (wpc[i] = "locked" /\ wpc'[i] # "locked") =>
                  /\ summary'.AddedFiles = summary.AddedFiles + 1
                  /\ summary'.TotalFiles = summary.TotalFiles + 1
                  /\ summary'.ModifiedFiles = summary.ModifiedFiles
                  /\ summary'.DeletedFiles = summary.DeletedFiles
            /\ wpc'[i] = wpc[i] =>
                  \A k \in DOMAIN origin' \ DOMAIN origin : origin'[k] # <<"new", i>>

C12_AddedFiles == [](C12_AddedResult) /\ [][C12_AddedStep]_vars

C12_AddedCompressed ==
    /\ ReturnedOk
    /\ cfg.CompressPatches
    /\ \E i \in DOMAIN tree : AddedFile(i) /\ wpc[i] = "done" /\ ResultsOf(i) # {}

\* the old-tree walk has called its callback for entry k of the old-only files
VisitedOld(k) ==
    /\ mpc \in {"walkOld", "returned"}
    /\ oi > Len(SharedFrom(tree, 1)) + k

\* the elements of results that came from old-only entry k
DeletedOf(k) == {j \in DOMAIN origin : origin[j][1] = "old" /\ origin[j][2] = k}

C14_ChunkOrder ==
    hpc \in {"compared", "patched"} =>
        \A k \in 1..(Len(ret.chunks) - 1) :
            ret.chunks[k + 1].Offset >= ret.chunks[k].Offset + Len(ret.chunks[k].OldData)

C14_SeveralChunks ==
    /\ hpc = "compared"
    /\ hkind = "binary"
    /\ Len(ret.chunks) >= 2
    /\ Len(ret.chunks[1].OldData) > 0

\* some step of the run is possible: the walker is not blocked, or some
\* goroutine is at a statement it can execute; a process that died of an
\* unrecovered panic takes no step
CanStep ==
    /\ ~crashed
    /\ \/ mpc \in {"walkNew", "walkOld"}
       \/ mpc = "acquire" /\ sem < cfg.Concurrency
       \/ mpc = "wait" /\ wg = 0
       \/ \E i \in DOMAIN tree :
             \/ wpc[i] \in {"start", "inCompare", "locked", "exiting", "released"}
             \/ wpc[i] = "haveResult" /\ mutex = 0

(***************************************************************************)
(* C15: termination: with Concurrency >= 1 and finite trees no reachable   *)
(* state of a CompareDirs run is stuck: until the call has returned        *)
(* (completed or aborted on a traversal error) the walker or some          *)
(* dispatched job can take a step, so a fairly scheduled run returns.      *)
(***************************************************************************)
C15_NeverStuck == mpc # "returned" => CanStep

\* the byte offset of line i (from 1) in the buffer the lines were split from
RECURSIVE LineOffset(_, _)
LineOffset(lines, i) ==
    IF i = 1 THEN 0 ELSE LineOffset(lines, i - 1) + Len(lines[i - 1]) + 1

\* the line indices, below the smaller line count, at which two buffers differ
DifferingLines(old, new) ==
    {i \in 1..Min(Len(SplitLines(old)), Len(SplitLines(new))) :
        SplitLines(old)[i] # SplitLines(new)[i]}

(***************************************************************************)
(* C16: TextFileHandler.Compare(old, new) with old # new returns one chunk *)
(* for each line index, below the smaller of the two line counts, at which *)
(* the lines differ, in index order, and no other chunk; the chunk's       *)
(* Offset is the sum of (length + 1) of the old lines before it, its       *)
(* OldData the old line and its NewData the new line.                      *)
(***************************************************************************)
C16_TextChunks ==
    (hkind = "text" /\ hpc = "compared" /\ bufOld # bufNew) =>
        LET D == DifferingLines(bufOld, bufNew)
        IN  /\ Len(ret.chunks) = Cardinality(D)
            /\ ~ret.err
            /\ \A i \in D :
                  LET k == Cardinality({j \in D : j < i}) + 1
                  IN  /\ ret.chunks[k].Offset = LineOffset(SplitLines(bufOld), i)
                      /\ ret.chunks[k].OldData = SplitLines(bufOld)[i]
                      /\ ret.chunks[k].NewData = SplitLines(bufNew)[i]

C16_LaterLineDiffers ==
    /\ hkind = "text"
    /\ hpc = "compared"
    /\ Len(ret.chunks) = 1
    /\ ret.chunks[1].Offset > 0
    /\ Len(ret.chunks[1].OldData) > 0
    /\ Len(SplitLines(bufOld)) # Len(SplitLines(bufNew))

\* a match lies inside both buffers and the bytes it covers are the same
ValidMatch(old, new, m) ==
    /\ m.OldOffset >= 0
    /\ m.NewOffset >= 0
    /\ m.OldOffset + m.Length <= Len(old)
    /\ m.NewOffset + m.Length <= Len(new)
    /\ \A d \in 1..m.Length : old[m.OldOffset + d] = new[m.NewOffset + d]

(***************************************************************************)
(* C17: every match in the list findMatches returns (that is, after        *)
(* mergeAdjacentMatches) lies inside both buffers and covers equal bytes:  *)
(* old[OldOffset .. OldOffset+Length) = new[NewOffset .. NewOffset+Length).*)
(***************************************************************************)
C17_MatchesValid ==
    (hkind = "binary" /\ hpc \in {"compared", "panicked", "patched"}) =>
        LET matches == findMatches(OptimizeBinaryDiff(h, bufNew), bufOld, bufNew)
        IN  \A k \in DOMAIN matches : ValidMatch(bufOld, bufNew, matches[k])

(***************************************************************************)
(* C18: GenericBinaryHandler.Compare never fails on bounds: for all byte   *)
(* buffers old and new it returns normally, every slice it takes being in  *)
(* range, and its error is nil.                                            *)
(***************************************************************************)
C18_CompareReturns ==
    (hkind = "binary" /\ hpc # "idle") => (~ret.panicked /\ ~ret.err)

\* the sum of the counts of a FileTypes map
RECURSIVE SumOf(_)
SumOf(m) ==
    IF DOMAIN m = {} THEN 0
    ELSE LET k == CHOOSE x \in DOMAIN m : TRUE
         IN  m[k] + SumOf([x \in (DOMAIN m) \ {k} |-> m[x]])

(***************************************************************************)
(* C19: at every successful return of CompareDirs, whatever the            *)
(* interleaving of the workers: TotalFiles = AddedFiles + ModifiedFiles +  *)
(* DeletedFiles = len(results), each of the three counters is the number   *)
(* of results with that operation, and the FileTypes counts sum to         *)
(* AddedFiles + ModifiedFiles.                                             *)
(***************************************************************************)
C19_SummaryConsistent ==
    ReturnedOk =>
        LET sm == retv.summary
            rs == retv.results
        IN  /\ sm.TotalFiles = sm.AddedFiles + sm.ModifiedFiles + sm.DeletedFiles
            /\ sm.TotalFiles = Len(rs)
            /\ sm.AddedFiles = Cardinality(WithOperation(rs, "added"))
            /\ sm.ModifiedFiles = Cardinality(WithOperation(rs, "modified"))
            /\ sm.DeletedFiles = Cardinality(WithOperation(rs, "deleted"))
            /\ SumOf(sm.FileTypes) = sm.AddedFiles + sm.ModifiedFiles

C19_AllThreeCounted ==
    /\ ReturnedOk
    /\ cfg.Concurrency > 1
    /\ retv.summary.AddedFiles > 0
    /\ retv.summary.ModifiedFiles > 0
    /\ retv.summary.DeletedFiles > 0
    /\ retv.results[1].Operation = "modified"

(***************************************************************************)
(* C20: no worker outlives the call: whenever CompareDirs has returned,    *)
(* with results or with an error from either walk, every job it dispatched *)
(* has released its admission slot and writes no more to results or        *)
(* summary.                                                                *)
(***************************************************************************)
C20_NoWorkerAfterReturn ==
    mpc = "returned" =>
        /\ \A i \in DOMAIN tree : wpc[i] \in {"idle", "released", "done"}
        /\ sem = 0

\* the path, relative to the root of its tree, of the file result k came from
RelPathOfResult(k) ==
    IF origin[k][1] = "new" THEN RelPathOf(tree, origin[k][2])
    ELSE OldOnlyRelPath(origin[k][2])

(***************************************************************************)
(* C21: every result's Path is the path of its file relative to the root   *)
(* of the compared tree, for added, modified and deleted results alike, so *)
(* two distinct files of one run, also files with the same base name in    *)
(* different sub-directories, never have results with equal Path.          *)
(***************************************************************************)
C21_PathsIdentifyFiles ==
    /\ \A k \in DOMAIN results : results[k].Path = RelPathOfResult(k)
    /\ \A j, k \in DOMAIN results : j # k => results[j].Path # results[k].Path

=============================================================================
